---- MODULE Spec2Model ----
(***************************************************************************)
(* Model of easig (src/src/lib.rs): the generic linear interpolator `lerp` *)
(* and the first-order `ComplementaryFilter`.                              *)
(*                                                                         *)
(* The scalar type is Rust's f32.  Its arithmetic is modelled bit-exactly  *)
(* (IEEE 754 binary32, round to nearest, ties to even) on records          *)
(*     [s |-> sign bit, e |-> biased exponent, m |-> fraction field].      *)
(* Rust leaves the sign and payload of a NaN result unspecified, so every  *)
(* NaN is the one value NaN below.                                         *)
(*                                                                         *)
(* A value of the generic type T is a tuple of f32 components whose        *)
(* `Add<T>` and `Mul<f32>` act componentwise: <<x>> is an f32, and         *)
(* <<i, j, k, w>> is a nalgebra Quaternion<f32> in storage order.          *)
(***************************************************************************)
EXTENDS Integers, Sequences, FiniteSets, TLC

----------------------------------------------------------------------------
(* f32: representation *)

F32(s, e, m) == [s |-> s, e |-> e, m |-> m]

\* f32::from_bits for a bit pattern with the sign bit clear.
FromBits(b) == F32(0, b \div 8388608, b % 8388608)

NaN == F32(0, 255, 4194304)

IsNaN(x) == x.e = 255 /\ x.m # 0
IsInf(x) == x.e = 255 /\ x.m = 0
IsZero(x) == x.e = 0 /\ x.m = 0
IsFinite(x) == x.e # 255

F32Neg(x) == IF IsNaN(x) THEN NaN ELSE F32(1 - x.s, x.e, x.m)
F32Abs(x) == IF IsNaN(x) THEN NaN ELSE F32(0, x.e, x.m)

\* Each stage below binds what it computed once, as the x of
\*     CHOOSE r \in {F(x) : x \in {e}} : TRUE,
\* the value of F at e.

\* Number of bits of a positive integer below 2^30, by halving the range.
BitLen2(n) == IF n >= 2 THEN 2 ELSE 1
BitLen4(n) == IF n >= 4 THEN 2 + BitLen2(n \div 4) ELSE BitLen2(n)
BitLen8(n) == IF n >= 16 THEN 4 + BitLen4(n \div 16) ELSE BitLen4(n)
BitLen16(n) == IF n >= 256 THEN 8 + BitLen8(n \div 256) ELSE BitLen8(n)
BitLen(n) == IF n >= 65536 THEN 16 + BitLen16(n \div 65536) ELSE BitLen16(n)

\* The significand with its implicit bit, and the exponent of its unit
\* (value = Sig(x) * 2^SigExp(x)), for finite x.
Sig(x) == IF x.e = 0 THEN x.m ELSE x.m + 8388608
SigExp(x) == (IF x.e = 0 THEN 1 ELSE x.e) - 150

\* The f32 of sign s with the 24-bit (or subnormal) significand mant in
\* units of 2^q; a mant of 2^24 comes from rounding up and carries.
Pack(s, mant, q) ==
    IF mant < 8388608 THEN F32(s, 0, mant)
    ELSE IF mant = 16777216
         THEN (IF q + 151 >= 255 THEN F32(s, 255, 0) ELSE F32(s, q + 151, 0))
    ELSE IF q + 150 >= 255 THEN F32(s, 255, 0)
    ELSE F32(s, q + 150, mant - 8388608)

\* sig * 2^(-shift) rounded to an integer, ties to even; sticky says that a
\* nonzero amount below one unit of sig was already dropped.
Rounded(sig, shift, sticky) ==
    IF shift <= 0 THEN sig * 2^(0 - shift)
    ELSE IF shift > 30 THEN 0
    ELSE IF \/ sig % 2^shift > 2^(shift - 1)
            \/ /\ sig % 2^shift = 2^(shift - 1)
               /\ (sticky \/ (sig \div 2^shift) % 2 = 1)
         THEN sig \div 2^shift + 1
    ELSE sig \div 2^shift

\* The exponent of the unit of the f32 nearest to sig * 2^exp.
Quantum(sig, exp) ==
    IF exp + BitLen(sig) - 24 < -149 THEN -149 ELSE exp + BitLen(sig) - 24

RoundTo(s, sig, exp, sticky, q) ==
    CHOOSE r \in {Pack(s, mant, q) : mant \in {Rounded(sig, q - exp, sticky)}} : TRUE

\* Round sig * 2^exp (plus a nonzero amount below one unit of sig when
\* sticky) to the nearest f32, ties to even.  0 < sig < 2^30.
RoundPack(s0, sig0, exp0, sticky0) ==
    CHOOSE r \in
        {CHOOSE t \in {RoundTo(s, sig, exp, sticky, q) : q \in {Quantum(sig, exp)}} : TRUE
            : s \in {s0}, sig \in {sig0}, exp \in {exp0}, sticky \in {sticky0}} : TRUE

\* A finite nonzero x with its significand shifted up to 24 bits.
Normalized(x) ==
    IF x.e # 0 THEN [m |-> x.m + 8388608, e |-> x.e - 150]
    ELSE [m |-> x.m * 2^(24 - BitLen(x.m)), e |-> BitLen(x.m) - 173]

\* The 48-bit product of two 24-bit significands, as hi * 2^24 + lo.
Product(sx, sy) ==
    LET a1  == sx \div 4096
        a0  == sx % 4096
        b1  == sy \div 4096
        b0  == sy % 4096
    IN  [hi |-> a1 * b1 + (a1 * b0 + a0 * b1) \div 4096
                + (((a1 * b0 + a0 * b1) % 4096) * 4096 + a0 * b0) \div 16777216,
         lo |-> (((a1 * b0 + a0 * b1) % 4096) * 4096 + a0 * b0) % 16777216]

MulFinite(s, a, b) ==
    CHOOSE r \in
        {RoundPack(s, p.hi * 64 + p.lo \div 262144, a.e + b.e + 18, p.lo % 262144 # 0)
            : p \in {Product(a.m, b.m)}} : TRUE

MulValues(x, y) ==
    IF IsNaN(x) \/ IsNaN(y) THEN NaN
    ELSE IF IsInf(x) \/ IsInf(y)
         THEN (IF IsZero(x) \/ IsZero(y) THEN NaN ELSE F32((x.s + y.s) % 2, 255, 0))
    ELSE IF IsZero(x) \/ IsZero(y) THEN F32((x.s + y.s) % 2, 0, 0)
    ELSE CHOOSE r \in {MulFinite((x.s + y.s) % 2, a, b)
                          : a \in {Normalized(x)}, b \in {Normalized(y)}} : TRUE

\* f32 * f32
F32Mul(x0, y0) == CHOOSE r \in {MulValues(x, y) : x \in {x0}, y \in {y0}} : TRUE

\* b + c for finite nonzero b, c with |b| >= |c|: both significands get three
\* more bits, c's is shifted down to b's unit, and the sum or difference is
\* rounded.
AddOrdered(b, c) ==
    CHOOSE r \in
        {IF b.s # c.s /\ big = sml /\ ~lost THEN F32(0, 0, 0)
         ELSE RoundPack(b.s,
                        IF b.s = c.s THEN big + sml
                        ELSE IF lost THEN big - sml - 1 ELSE big - sml,
                        SigExp(b) - 3, lost)
            : big \in {Sig(b) * 8},
              sml \in {IF SigExp(b) - SigExp(c) >= 28 THEN 0
                       ELSE (Sig(c) * 8) \div 2^(SigExp(b) - SigExp(c))},
              lost \in {IF SigExp(b) - SigExp(c) >= 28 THEN TRUE
                        ELSE (Sig(c) * 8) % 2^(SigExp(b) - SigExp(c)) # 0}} : TRUE

AddValues(x, y) ==
    IF IsNaN(x) \/ IsNaN(y) THEN NaN
    ELSE IF IsInf(x) THEN (IF IsInf(y) /\ x.s # y.s THEN NaN ELSE x)
    ELSE IF IsInf(y) THEN y
    ELSE IF IsZero(x) /\ IsZero(y) THEN F32(IF x.s = y.s THEN x.s ELSE 0, 0, 0)
    ELSE IF IsZero(x) THEN y
    ELSE IF IsZero(y) THEN x
    ELSE IF \/ SigExp(x) > SigExp(y)
            \/ SigExp(x) = SigExp(y) /\ Sig(x) >= Sig(y)
         THEN AddOrdered(x, y)
    ELSE AddOrdered(y, x)

\* f32 + f32
F32Add(x0, y0) == CHOOSE r \in {AddValues(x, y) : x \in {x0}, y \in {y0}} : TRUE

\* f32 - f32
F32Sub(x, y) == F32Add(x, F32Neg(y))

\* Position of a non-NaN f32 in the numeric order (both zeros at 0).
Ord(x) == IF x.s = 0 THEN x.e * 8388608 + x.m ELSE 0 - (x.e * 8388608 + x.m)

\* f32 ==, <, <=
F32Eq(x, y) == ~IsNaN(x) /\ ~IsNaN(y) /\ Ord(x) = Ord(y)
F32Lt(x, y) == ~IsNaN(x) /\ ~IsNaN(y) /\ Ord(x) < Ord(y)
F32Le(x, y) == ~IsNaN(x) /\ ~IsNaN(y) /\ Ord(x) <= Ord(y)

----------------------------------------------------------------------------
(* f32 literals of the source and of the inputs *)

Zero     == FromBits(0)              \* 0.0
NegZero  == F32Neg(Zero)             \* -0.0
One      == FromBits(1065353216)     \* 1.0
Two      == FromBits(1073741824)     \* 2.0
Three    == FromBits(1077936128)     \* 3.0
Four     == FromBits(1082130432)     \* 4.0
Tenth    == FromBits(1036831949)     \* 0.1
Half     == FromBits(1056964608)     \* 0.5
P8       == FromBits(1061997773)     \* 0.8
OneHalf  == FromBits(1069547520)     \* 1.5
P16      == FromBits(1070386381)     \* 1.6
P18      == FromBits(1072064102)     \* 1.8
P24      == FromBits(1075419546)     \* 2.4
P32      == FromBits(1078774989)     \* 3.2
epsilon  == FromBits(1008981770)     \* 0.01
MinSub   == FromBits(1)              \* smallest positive subnormal
MaxF     == FromBits(2139095039)     \* f32::MAX
Inf      == FromBits(2139095040)     \* f32::INFINITY

\* tests::eq
eq(a, b) == F32Lt(F32Abs(F32Sub(a, b)), epsilon)

----------------------------------------------------------------------------
(* The generic type T: Add<T, Output = T> and Mul<f32, Output = T> *)

TAdd(x, y) == [i \in DOMAIN x |-> F32Add(x[i], y[i])]
TMulF(x, f) == [i \in DOMAIN x |-> F32Mul(x[i], f)]

\* nalgebra's Quaternion::new(w, i, j, k), stored as coords <<i, j, k, w>>,
\* and Quaternion::identity().
QuaternionNew(w, i, j, k) == <<i, j, k, w>>
QuaternionIdentity == QuaternionNew(One, Zero, Zero, Zero)
QI(q) == q[1]
QJ(q) == q[2]
QK(q) == q[3]
QW(q) == q[4]

----------------------------------------------------------------------------
(* The program *)

\* A plausible slip: the two weights exchanged.
lerp_swapped(a, b, alpha) == TAdd(TMulF(a, alpha), TMulF(b, F32Sub(One, alpha)))

\* pub fn lerp<T>(a: T, b: T, alpha: f32) -> T
lerp(a, b, alpha) == TAdd(TMulF(a, F32Sub(One, alpha)), TMulF(b, alpha))

\* ComplementaryFilter::new
new(initial_value, alpha0) == [current_value |-> initial_value, alpha |-> alpha0]

\* A plausible slip: the coefficient forced into [0, 1].
set_alpha_clamped(self, new_alpha) ==
    [self EXCEPT !.alpha = IF F32Lt(new_alpha, Zero) THEN Zero
                           ELSE IF F32Lt(One, new_alpha) THEN One
                           ELSE new_alpha]

\* A plausible slip: the estimate restarted when the coefficient changes.
set_alpha_reset(self, new_alpha) ==
    [current_value |-> TMulF(self.current_value, Zero), alpha |-> new_alpha]

\* ComplementaryFilter::set_alpha
set_alpha(self, new_alpha) == [self EXCEPT !.alpha = new_alpha]

\* A plausible slip: the measurement stored instead of the blend.
predict_next_stale(self, value) ==
    [self |-> [self EXCEPT !.current_value = value],
     ret  |-> TAdd(TMulF(value, self.alpha),
                   TMulF(self.current_value, F32Sub(One, self.alpha)))]

\* A plausible slip: the two weights exchanged.
predict_next_swapped(self, value) ==
    LET y_k == TAdd(TMulF(value, F32Sub(One, self.alpha)),
                    TMulF(self.current_value, self.alpha))
    IN  [self |-> [self EXCEPT !.current_value = y_k], ret |-> y_k]

\* ComplementaryFilter::predict_next: the receiver after the call and the
\* value returned.
predict_next(self, value) ==
    LET y_k == TAdd(TMulF(value, self.alpha),
                    TMulF(self.current_value, F32Sub(One, self.alpha)))
    IN  [self |-> [self EXCEPT !.current_value = y_k], ret |-> y_k]

----------------------------------------------------------------------------
(* State *)

VARIABLES
    current_value,  \* ComplementaryFilter.current_value
    alpha,          \* ComplementaryFilter.alpha
    log,            \* history: the calls made on the filter, `new` first, each
                    \* with its arguments, its result and the fields after it
    interp          \* history: the last call of lerp, or None

vars == <<current_value, alpha, log, interp>>

None == <<>>

\* Longest sequence of calls on the filter after `new`.
MaxCalls == 3

\* Inputs.
Scalars == {<<NegZero>>, <<One>>, <<Two>>, <<Three>>, <<Inf>>}
Quaternions == {QuaternionIdentity,
                QuaternionNew(One, Two, Three, Four),
                QuaternionNew(Four, One, Two, Three)}
Alphas == {Zero, Tenth, P8, One, OneHalf}
LerpScalars == {<<x>> : x \in {Zero, NegZero, One, Two, Three, F32Neg(Three),
                               Tenth, MinSub, MaxF, F32Neg(MaxF), Inf, NaN}}
LerpAlphas == {Zero, Tenth, Half, P8, One, OneHalf, F32Neg(Half), NaN}

SameType(S, x) == {y \in S : Len(y) = Len(x)}

Call(op, arg, ret, self) ==
    [op |-> op, arg |-> arg, ret |-> ret,
     cur |-> self.current_value, alpha |-> self.alpha]

Init ==
    \E initial_value \in Scalars \cup Quaternions, a \in Alphas :
        LET self == new(initial_value, a)
        IN  /\ current_value = self.current_value
            /\ alpha = self.alpha
            /\ log = <<Call("new", <<initial_value, a>>, None, self)>>
            /\ interp = None

Self == [current_value |-> current_value, alpha |-> alpha]

SetAlpha ==
    /\ Len(log) <= MaxCalls
    /\ \E new_alpha \in Alphas :
        LET self == set_alpha(Self, new_alpha)
        IN  /\ current_value' = self.current_value
            /\ alpha' = self.alpha
            /\ log' = Append(log, Call("set_alpha", new_alpha, None, self))
    /\ UNCHANGED interp

PredictNext ==
    /\ Len(log) <= MaxCalls
    /\ \E value \in SameType(Scalars \cup Quaternions, current_value) :
        LET r == predict_next(Self, value)
        IN  /\ current_value' = r.self.current_value
            /\ alpha' = r.self.alpha
            /\ log' = Append(log, Call("predict_next", value, r.ret, r.self))
    /\ UNCHANGED interp

Lerp ==
    /\ interp = None
    /\ \E a \in LerpScalars \cup Quaternions, al \in LerpAlphas :
        \E b \in SameType(LerpScalars \cup Quaternions, a) :
            interp' = [a |-> a, b |-> b, alpha |-> al, ret |-> lerp(a, b, al)]
    /\ UNCHANGED <<current_value, alpha, log>>

Next == SetAlpha \/ PredictNext

\* The filter driven by its caller.
Spec == Init /\ [][Next]_vars

NextLerp == Lerp

\* The interpolator called beside a filter.
SpecLerp == Init /\ [][NextLerp]_vars

----------------------------------------------------------------------------
(* Vocabulary of the properties *)

IsT(x) == \A i \in DOMAIN x : x[i].s \in 0..1 /\ x[i].e \in 0..255 /\ x[i].m \in 0..8388607
TFinite(x) == \A i \in DOMAIN x : IsFinite(x[i])
\* Componentwise f32 ==.
TEq(x, y) == DOMAIN x = DOMAIN y /\ \A i \in DOMAIN x : F32Eq(x[i], y[i])
\* The same number in every component: == or both NaN.
TSame(x, y) ==
    /\ DOMAIN x = DOMAIN y
    /\ \A i \in DOMAIN x : F32Eq(x[i], y[i]) \/ (IsNaN(x[i]) /\ IsNaN(y[i]))

\* The positions of the predict_next and set_alpha calls in the log.
Predicts == {i \in 2..Len(log) : log[i].op = "predict_next"}
SetAlphas == {i \in 2..Len(log) : log[i].op = "set_alpha"}
Latest(S) == CHOOSE i \in S : \A j \in S : j <= i
\* Every call is the latest call of the state it leads to, so a property of
\* all calls is stated of the latest one: position Last of the log.
Last == Len(log)
LastIsPredict == Last \in Predicts

\* x * x * ... * x (n factors) in f32.
RECURSIVE PowF(_, _)
PowF(x, n) == IF n = 0 THEN One ELSE F32Mul(PowF(x, n - 1), x)

\* The runs that end with the latest call: after position r[1], the calls
\* r[1]+1..r[2] = Last are all predict_next(m) on an f32 filter.
Runs ==
    {r \in (1..Len(log)) \X {Last} :
        /\ r[1] < r[2]
        /\ r[2] \in Predicts
        /\ Len(log[r[2]].arg) = 1
        /\ \A k \in (r[1] + 1)..r[2] : k \in Predicts /\ log[k].arg = log[r[2]].arg}
\* |current_value - m| after call k of a run that feeds m.
Dist(k, m) == F32Abs(F32Sub(log[k].cur[1], m))
\* alpha in (0,1), the start and the measurement finite.
InRange(r) ==
    /\ F32Lt(Zero, log[r[1]].alpha) /\ F32Lt(log[r[1]].alpha, One)
    /\ IsFinite(log[r[1]].cur[1])
    /\ IsFinite(log[r[2]].arg[1])

\* The left fold of lerp over the measurements fed so far, each with the
\* coefficient in force when it was fed.
RECURSIVE Fold(_)
Fold(k) ==
    IF k = 1 THEN log[1].arg[1]
    ELSE IF k \in Predicts THEN lerp(Fold(k - 1), log[k].arg, log[k - 1].alpha)
    ELSE Fold(k - 1)

----------------------------------------------------------------------------
(* Properties *)

\* C1: predict_next(v) on (current_value = c, alpha = al) returns
\* (v * al) + (c * (1 - al)) and leaves current_value equal to the value
\* returned, so once a predict_next was made current_value is what the most
\* recent one returned; from 1.0 with alpha 0.8, the measurement 2.0 returns
\* 1.8 within 0.01.
C1_StateIsLastOutput ==
    /\ LastIsPredict =>
        LET i == Last
            c == log[i - 1].cur
            al == log[i - 1].alpha
            v == log[i].arg
        IN  /\ log[i].ret = TAdd(TMulF(v, al), TMulF(c, F32Sub(One, al)))
            /\ log[i].cur = log[i].ret
            /\ (c = <<One>> /\ al = P8 /\ v = <<Two>>) => eq(log[i].ret[1], P18)
    /\ Predicts # {} => current_value = log[Latest(Predicts)].ret

C1_Witness ==
    /\ Len(log) = 3
    /\ log[1].cur = <<One>> /\ log[1].alpha = P8
    /\ log[2].op = "predict_next" /\ log[2].arg = <<Two>>
    /\ log[3].op = "set_alpha" /\ log[3].arg = OneHalf

\* C2 as stated: from the identity quaternion with alpha 0.8, the single
\* measurement {w:4, i:1, j:2, k:3} returns {i:1.6, j:2.4, k:3.2, w:1.0}
\* within 0.01 in every component.
C2_AsStated ==
    (/\ Len(log) = 2
     /\ log[1].cur = QuaternionIdentity /\ log[1].alpha = P8
     /\ log[2].op = "predict_next"
     /\ log[2].arg = QuaternionNew(Four, One, Two, Three))
    => /\ eq(QI(log[2].ret), P16)
       /\ eq(QJ(log[2].ret), P24)
       /\ eq(QK(log[2].ret), P32)
       /\ eq(QW(log[2].ret), One)

\* C2 amended: from the identity quaternion with alpha 0.8, the single
\* measurement {w:1, i:2, j:3, k:4} (Quaternion::new(1.0, 2.0, 3.0, 4.0))
\* returns {i:1.6, j:2.4, k:3.2, w:1.0} within 0.01 in every component.
C2_QuaternionStep ==
    (/\ Len(log) = 2
     /\ log[1].cur = QuaternionIdentity /\ log[1].alpha = P8
     /\ log[2].op = "predict_next"
     /\ log[2].arg = QuaternionNew(One, Two, Three, Four))
    => /\ eq(QI(log[2].ret), P16)
       /\ eq(QJ(log[2].ret), P24)
       /\ eq(QK(log[2].ret), P32)
       /\ eq(QW(log[2].ret), One)

C2_Witness ==
    /\ Len(log) = 2
    /\ log[1].cur = QuaternionIdentity /\ log[1].alpha = P8
    /\ log[2].op = "predict_next"
    /\ log[2].arg = QuaternionNew(One, Two, Three, Four)
    /\ current_value = log[2].ret

\* C3: set_alpha(a2) makes alpha a2 and leaves current_value as it was; in
\* predict_next(v1); set_alpha(a2); predict_next(v2) the value r1 returned by
\* the first call is the stored estimate after set_alpha and the second call
\* returns (v2 * a2) + (r1 * (1 - a2)).
C3_SetAlphaFrame ==
    /\ \A i \in SetAlphas :
        /\ log[i].alpha = log[i].arg
        /\ log[i].cur = log[i - 1].cur
    /\ (Last >= 4 /\ Last - 2 \in Predicts /\ Last - 1 \in SetAlphas /\ LastIsPredict)
        => LET i == Last - 2
               r1 == log[i].ret
               a2 == log[i + 1].arg
               v2 == log[i + 2].arg
           IN  /\ log[i + 1].cur = r1
               /\ log[i + 2].ret = TAdd(TMulF(v2, a2), TMulF(r1, F32Sub(One, a2)))

C3_Witness ==
    /\ Len(log) = 4
    /\ log[1].cur = <<One>> /\ log[1].alpha = P8
    /\ log[2].op = "predict_next" /\ log[2].arg = <<Two>>
    /\ log[3].op = "set_alpha" /\ log[3].arg = OneHalf
    /\ log[4].op = "predict_next" /\ log[4].arg = <<One>>

\* C4: alpha is the argument of the most recent set_alpha, or the alpha given
\* to new when there was none; predict_next leaves alpha alone; an alpha
\* outside [0,1] is kept as given.
C4_AlphaIsLastSet ==
    /\ alpha = IF SetAlphas = {} THEN log[1].arg[2] ELSE log[Latest(SetAlphas)].arg
    /\ \A i \in Predicts : log[i].alpha = log[i - 1].alpha

C4_Witness ==
    /\ Len(log) = 3
    /\ log[2].op = "set_alpha" /\ log[2].arg = OneHalf
    /\ log[3].op = "predict_next"
    /\ alpha = OneHalf

\* C5: with alpha in (0,1) and the same m fed n times from c0,
\* |current_value - m| = (1 - alpha)^n * |c0 - m|, and the distance to m
\* does not increase from one call to the next.  A filter that starts at
\* c0 = m is to stay there: both sides are then 0 in any arithmetic.
C5_AsStated ==
    \A r \in Runs :
        InRange(r) =>
            LET m == log[r[2]].arg[1]
                q == F32Sub(One, log[r[1]].alpha)
            IN  /\ Dist(r[2], m) = F32Mul(PowF(q, r[2] - r[1]), Dist(r[1], m))
                /\ F32Le(Dist(r[2], m), Dist(r[2] - 1, m))

\* C6 as stated: with alpha = 0.0 predict_next(v) returns the prior
\* current_value for every v and leaves current_value as it was; with
\* alpha = 1.0 it returns v for every prior current_value, which becomes v.
C6_AsStated ==
    LastIsPredict =>
        LET i == Last
            c == log[i - 1].cur
            al == log[i - 1].alpha
            v == log[i].arg
        IN  /\ F32Eq(al, Zero) => TSame(log[i].ret, c) /\ TSame(log[i].cur, c)
            /\ F32Eq(al, One) => TSame(log[i].ret, v) /\ TSame(log[i].cur, v)

\* C6 amended: for a finite measurement v and a finite prior current_value c,
\* with alpha = 0.0 predict_next(v) returns a value == c and current_value
\* stays == c; with alpha = 1.0 it returns a value == v and current_value
\* becomes == v.
C6_DegenerateAlphaFinite ==
    LastIsPredict =>
        LET i == Last
            c == log[i - 1].cur
            al == log[i - 1].alpha
            v == log[i].arg
        IN  (TFinite(c) /\ TFinite(v)) =>
            /\ F32Eq(al, Zero) => TEq(log[i].ret, c) /\ TEq(log[i].cur, c)
            /\ F32Eq(al, One) => TEq(log[i].ret, v) /\ TEq(log[i].cur, v)

C6_Witness ==
    /\ Len(log) = 4
    /\ log[1].cur = <<NegZero>> /\ log[1].alpha = Zero
    /\ log[2].op = "predict_next" /\ log[2].arg = <<One>>
    /\ log[2].cur = <<Zero>>
    /\ log[3].op = "set_alpha" /\ log[3].arg = One
    /\ log[4].op = "predict_next" /\ log[4].arg = <<Two>>
    /\ current_value = <<Two>>

\* C7: lerp(a, b, alpha) returns a * (1 - alpha) + b * alpha for every a, b
\* and alpha, in or out of [0,1], always a value of T; it changes no filter;
\* lerp(1.0, 2.0, 0.8) is 1.8 within 0.01.
C7_LerpFormula ==
    interp # None =>
        /\ interp.ret = TAdd(TMulF(interp.a, F32Sub(One, interp.alpha)),
                             TMulF(interp.b, interp.alpha))
        /\ IsT(interp.ret) /\ Len(interp.ret) = Len(interp.a)
        /\ (interp.a = <<One>> /\ interp.b = <<Two>> /\ interp.alpha = P8)
           => eq(interp.ret[1], P18)
        /\ Len(log) = 1
        /\ current_value = log[1].cur /\ alpha = log[1].alpha

C7_Witness ==
    /\ interp # None
    /\ interp.a = <<One>> /\ interp.b = <<Two>> /\ interp.alpha = OneHalf
    /\ interp.ret = <<FromBits(1075838976)>>   \* 2.5

\* C8: for finite scalars a and b, lerp(a, b, 0.0) == a and
\* lerp(a, b, 1.0) == b.
C8_LerpEndpoints ==
    (interp # None /\ Len(interp.a) = 1 /\ TFinite(interp.a) /\ TFinite(interp.b))
    => /\ F32Eq(interp.alpha, Zero) => F32Eq(interp.ret[1], interp.a[1])
       /\ F32Eq(interp.alpha, One) => F32Eq(interp.ret[1], interp.b[1])

C8_Witness ==
    /\ interp # None
    /\ interp.a = <<NegZero>> /\ interp.b = <<MaxF>> /\ interp.alpha = Zero
    /\ interp.ret = <<Zero>>

\* C9 as stated: for finite scalars a and b and alpha in [0,1],
\* min(a,b) <= lerp(a, b, alpha) <= max(a,b).
C9_AsStated ==
    (/\ interp # None /\ Len(interp.a) = 1
     /\ TFinite(interp.a) /\ TFinite(interp.b)
     /\ F32Le(Zero, interp.alpha) /\ F32Le(interp.alpha, One))
    => LET a == interp.a[1]
           b == interp.b[1]
           lo == IF F32Le(a, b) THEN a ELSE b
           hi == IF F32Le(a, b) THEN b ELSE a
       IN  F32Le(lo, interp.ret[1]) /\ F32Le(interp.ret[1], hi)

\* C10: predict_next(v) on (current_value = c, alpha = al) returns the value
\* of lerp(c, v, al), and the estimate after v1..vn from c0 is the left fold
\* lerp(...lerp(lerp(c0, v1, al), v2, al)..., vn, al).
C10_StepIsLerp ==
    /\ LastIsPredict =>
        log[Last].ret = lerp(log[Last - 1].cur, log[Last].arg, log[Last - 1].alpha)
    /\ current_value = Fold(Len(log))

C10_Witness ==
    /\ Len(log) = 4
    /\ \A i \in 2..4 : i \in Predicts
    /\ log[1].cur = <<One>> /\ log[1].alpha = P8
    /\ log[2].arg = <<Two>> /\ log[3].arg = <<NegZero>> /\ log[4].arg = <<Two>>
    /\ current_value # log[2].ret

====
